---------------------------- MODULE Spec2Model ----------------------------
(***************************************************************************)
(* Model of NetworkScanner (src/src/network-scanner.ts): the scan()        *)
(* pipeline -- subnet address generator, batched ping sweep, ARP cache     *)
(* reader and parser, subnet filter, vendor lookup and the name-resolution *)
(* chain -- as a state machine whose steps are the awaits of the code.     *)
(*                                                                         *)
(* Representation.  A dotted-quad string is the tuple of its four octets   *)
(* (what ip.split(".") and parseInt give).  A JavaScript string that the   *)
(* code edits character by character (a MAC address, a host name) is a     *)
(* sequence of one-character strings.  A JavaScript bitwise operator       *)
(* works on 32-bit signed integers, and so do the operators below.         *)
(***************************************************************************)
EXTENDS Integers, Sequences, FiniteSets, TLC

(***************************************************************************)
(* Bounds of the model.                                                    *)
(***************************************************************************)
\* Largest number of host bits of a netmask swept in SpecSweep (8 = /24).
MaxHostBits == 8
\* Largest number of interfaces Deno.networkInterfaces() returns in Spec.
MaxIfaces == 2

(***************************************************************************)
(* 32-bit integer arithmetic of JavaScript's bitwise operators.            *)
(***************************************************************************)
RECURSIVE BitAnd(_, _)
\* x & y on int32 operands (two's complement; \div floors, so -1 is all ones).
BitAnd(x, y) ==
    IF x = 0 \/ y = 0 THEN 0
    ELSE IF x = -1 THEN y
    ELSE IF y = -1 THEN x
    ELSE ((x % 2) * (y % 2)) + 2 * BitAnd(x \div 2, y \div 2)

RECURSIVE BitOr(_, _)
\* x | y on int32 operands.
BitOr(x, y) ==
    IF x = 0 THEN y
    ELSE IF y = 0 THEN x
    ELSE IF x = -1 \/ y = -1 THEN -1
    ELSE (IF (x % 2) + (y % 2) > 0 THEN 1 ELSE 0) + 2 * BitOr(x \div 2, y \div 2)

\* ~x on an int32 operand.
BitNot(x) == IF x >= 0 THEN (-x) - 1 ELSE -(x + 1)

\* x << 8 on an int32 operand: the low 24 bits move up, the result is read
\* back as a signed 32-bit integer.
Shl8(x) ==
    LET low24 == x % (2^24)
        signed24 == IF low24 >= 2^23 THEN low24 - 2^24 ELSE low24
    IN  signed24 * 256

\* x >>> n for n >= 1 on an int32 operand: the bits of x read as unsigned,
\* shifted right (the result fits 31 bits).
UShr(x, n) == IF x >= 0 THEN x \div (2^n) ELSE (x \div (2^n)) + 2^(32 - n)

\* x >>> 0: the unsigned 32-bit reading of x, held as its two 16-bit halves
\* <<high, low>> (the value high * 65536 + low can exceed 2^31 - 1).
ToUint32(x) == <<UShr(x, 16), x % 65536>>

\* ToInt32 of an unsigned 32-bit value: what a bitwise operator does to an
\* operand before it works on it.
ToInt32(u) == (IF u[1] >= 32768 THEN u[1] - 65536 ELSE u[1]) * 65536 + u[2]

\* (acc, octet) => (acc << 8) | parseInt(octet)
OctetStep(acc, octet) == BitOr(Shl8(acc), octet)

\* ip.split(".").reduce((acc, octet) => (acc << 8) | parseInt(octet), 0)
ipToNumber(ip) == OctetStep(OctetStep(OctetStep(OctetStep(0, ip[1]), ip[2]), ip[3]), ip[4])

\* [(current >>> 24) & 0xff, (current >>> 16) & 0xff, (current >>> 8) & 0xff,
\*  current & 0xff].join(".")
NumberToIp(current) ==
    << BitAnd(UShr(current, 24), 255), BitAnd(UShr(current, 16), 255),
       BitAnd(UShr(current, 8), 255), BitAnd(current, 255) >>

(***************************************************************************)
(* calculateSubnet: the generator.  Its body runs at the first next().     *)
(***************************************************************************)
\* const network = ipNum & maskNum
SubnetNetwork(ip, netmask) == BitAnd(ipToNumber(ip), ipToNumber(netmask))

\* const broadcast = network | (~maskNum >>> 0)
SubnetBroadcast(ip, netmask) ==
    BitOr(SubnetNetwork(ip, netmask), ToInt32(ToUint32(BitNot(ipToNumber(netmask)))))

\* The loop test with <= in place of <: the broadcast address is yielded too.
LoopCond_inclusive(current, broadcast) == current <= broadcast

\* for (...; current < broadcast; ...)
LoopCond(current, broadcast) == current < broadcast

\* The generator object returned by calculateSubnet(ip, netmask).
NewGenerator(ip, netmask) ==
    [state |-> "suspendedStart", ip |-> ip, netmask |-> netmask,
     broadcast |-> 0, current |-> 0]

\* One next() of the generator: the generator after it, whose state is
\* "suspendedYield" when it yielded NumberToIp(current), "completed" when done.
GenNext(g) ==
    LET broadcast == IF g.state = "suspendedStart"
                     THEN SubnetBroadcast(g.ip, g.netmask) ELSE g.broadcast
        current   == IF g.state = "suspendedStart"
                     THEN SubnetNetwork(g.ip, g.netmask) + 1 ELSE g.current + 1
    IN  IF g.state = "completed" THEN g
        ELSE IF LoopCond(current, broadcast)
             THEN [g EXCEPT !.state = "suspendedYield", !.broadcast = broadcast,
                            !.current = current]
             ELSE [g EXCEPT !.state = "completed", !.broadcast = broadcast,
                            !.current = current]

(***************************************************************************)
(* Strings.                                                                *)
(***************************************************************************)
\* The string "Unknown".
Unknown == <<"U", "n", "k", "n", "o", "w", "n">>

\* JavaScript truthiness of a string (undefined is held as the empty string
\* where the code only tests it with || or ?.).
Truthy(s) == Len(s) > 0

\* a || b
OrElse(a, b) == IF Truthy(a) THEN a ELSE b

\* \s of a regular expression, on the characters of the model.
IsSpace(c) == c \in {" ", "\t", "\n"}

\* One character of toUpperCase().
UpperChar(c) ==
    CASE c = "a" -> "A" [] c = "b" -> "B" [] c = "c" -> "C"
      [] c = "d" -> "D" [] c = "e" -> "E" [] c = "f" -> "F"
      [] OTHER -> c

\* s.toUpperCase()
toUpperCase(s) == [i \in 1..Len(s) |-> UpperChar(s[i])]

\* s.replace(/-/g, ":")
HyphensToColons(s) == [i \in 1..Len(s) |-> IF s[i] = "-" THEN ":" ELSE s[i]]

\* s.replace(/:/g, "")
RemoveColons(s) == SelectSeq(s, LAMBDA c : c # ":")

\* s.replace(/\.$/, "")
StripTrailingDot(s) ==
    IF Len(s) > 0 /\ s[Len(s)] = "." THEN SubSeq(s, 1, Len(s) - 1) ELSE s

RECURSIVE TrimStart(_)
TrimStart(s) == IF Len(s) > 0 /\ IsSpace(s[1]) THEN TrimStart(Tail(s)) ELSE s

RECURSIVE TrimEnd(_)
TrimEnd(s) ==
    IF Len(s) > 0 /\ IsSpace(s[Len(s)]) THEN TrimEnd(SubSeq(s, 1, Len(s) - 1)) ELSE s

\* s.trim()
Trim(s) == TrimEnd(TrimStart(s))

RECURSIVE CollapseSpaces(_)
\* s.replace(/\s+/g, " ")
CollapseSpaces(s) ==
    IF Len(s) = 0 THEN <<>>
    ELSE IF IsSpace(s[1])
         THEN <<" ">> \o CollapseSpaces(TrimStart(s))
         ELSE <<s[1]>> \o CollapseSpaces(Tail(s))

\* name.replace(/\s+/g, " ").trim()
NormalizeName(name) == Trim(CollapseSpaces(name))

(***************************************************************************)
(* parseArpOutput.  The text is the sequence of its lines; a line is read  *)
(* as the tokens the two regular expressions look for:                     *)
(*   lead  - white space before the address,                               *)
(*   ip    - the \d+\.\d+\.\d+\.\d+ token, as its four numbers,            *)
(*   ether - the word "ether" between the address and the next token,      *)
(*   field - the characters of the token that follows.                     *)
(***************************************************************************)
HexDigits ==
    {"0", "1", "2", "3", "4", "5", "6", "7", "8", "9",
     "a", "b", "c", "d", "e", "f", "A", "B", "C", "D", "E", "F"}

\* ([0-9a-fA-F:-]{17}) or ([0-9a-fA-F:]{17}) at the start of a token.
First17In(field, class) ==
    /\ Len(field) >= 17
    /\ \A i \in 1..17 : field[i] \in class

\* winRegex = /^\s*(\d+\.\d+\.\d+\.\d+)\s+([0-9a-fA-F:-]{17})/gm
\* ("ether" cannot be part of the 17 characters: "t" is not in the class).
WinMatch(line) == ~line.ether /\ First17In(line.field, HexDigits \cup {":", "-"})

\* unixRegex = /^(\d+\.\d+\.\d+\.\d+)\s+ether\s+([0-9a-fA-F:]{17})/gm
UnixMatch(line) == ~line.lead /\ line.ether /\ First17In(line.field, HexDigits \cup {":"})

\* The string "00:00:00:00:00:00".
ZeroMac ==
    <<"0", "0", ":", "0", "0", ":", "0", "0", ":", "0", "0", ":", "0", "0", ":", "0", "0">>

\* arpMap.set(ip, mac) on a Map held as the sequence of its entries in
\* insertion order: an existing key keeps its place and takes the new value.
MapSet(m, ip, mac) ==
    IF \E i \in 1..Len(m) : m[i].ip = ip
    THEN [i \in 1..Len(m) |-> IF m[i].ip = ip THEN [ip |-> ip, mac |-> mac] ELSE m[i]]
    ELSE Append(m, [ip |-> ip, mac |-> mac])

\* match[2].replace(/-/g, ":").toUpperCase()
WinMac(line) == toUpperCase(HyphensToColons(SubSeq(line.field, 1, 17)))

\* match[2].toUpperCase()
UnixMac(line) == toUpperCase(SubSeq(line.field, 1, 17))

\* parseArpOutput without the test of the all-zero address.
KeepMac_all(mac) == TRUE

\* if (mac !== "00:00:00:00:00:00")
KeepMac(mac) == mac # ZeroMac

RECURSIVE WinLoop(_, _)
\* while ((match = winRegex.exec(output)) !== null) { ... }
WinLoop(lines, m) ==
    IF lines = <<>> THEN m
    ELSE LET line == Head(lines)
             mac  == WinMac(line)
         IN  WinLoop(Tail(lines),
                     IF WinMatch(line) /\ KeepMac(mac) THEN MapSet(m, line.ip, mac) ELSE m)

RECURSIVE UnixLoop(_, _)
\* while ((match = unixRegex.exec(output)) !== null) { ... }
UnixLoop(lines, m) ==
    IF lines = <<>> THEN m
    ELSE LET line == Head(lines)
             mac  == UnixMac(line)
         IN  UnixLoop(Tail(lines),
                      IF UnixMatch(line) /\ KeepMac(mac) THEN MapSet(m, line.ip, mac) ELSE m)

parseArpOutput(output) == UnixLoop(output, WinLoop(output, <<>>))

\* getArpCache: the catch returns an empty Map when output() rejects; the
\* exit code of a process that ran is not looked at.
getArpCache(out) == IF out.kind = "throw" THEN <<>> ELSE parseArpOutput(out.lines)

(***************************************************************************)
(* filterSubnetDevices                                                     *)
(***************************************************************************)
\* filterSubnetDevices with the test removed: every entry is kept.
InSubnet_any(ip, networkIp, netmask) == TRUE

\* (ipNum & mask) === (network & mask)
InSubnet(ip, networkIp, netmask) ==
    BitAnd(ipToNumber(ip), ipToNumber(netmask))
        = BitAnd(ipToNumber(networkIp), ipToNumber(netmask))

\* The entries of the subnet in the reverse of their order in the cache.
filterSubnetDevices_reversed(cache, networkIp, netmask) ==
    LET kept == SelectSeq(cache, LAMBDA e : InSubnet(e.ip, networkIp, netmask))
    IN  [i \in 1..Len(kept) |-> kept[Len(kept) + 1 - i]]

\* for (const [ip, mac] of arpCache.entries()) if (...) subnetDevices.push
filterSubnetDevices(cache, networkIp, netmask) ==
    SelectSeq(cache, LAMBDA e : InSubnet(e.ip, networkIp, netmask))

(***************************************************************************)
(* Vendor lookup and MAC formatting of enrichDevices.                      *)
(***************************************************************************)
RECURSIVE Pairs(_)
\* mac.match(/.{1,2}/g): the string cut into pieces of two characters, the
\* last of one when the length is odd.
Pairs(s) ==
    IF Len(s) = 0 THEN <<>>
    ELSE IF Len(s) = 1 THEN <<s>>
    ELSE <<SubSeq(s, 1, 2)>> \o Pairs(SubSeq(s, 3, Len(s)))

RECURSIVE JoinColon(_)
\* pieces.join(":")
JoinColon(pieces) ==
    IF Len(pieces) = 0 THEN <<>>
    ELSE IF Len(pieces) = 1 THEN pieces[1]
    ELSE pieces[1] \o <<":">> \o JoinColon(Tail(pieces))

\* mac.match(/.{1,2}/g)?.join(":") || mac
formatMac(mac) == OrElse(JoinColon(Pairs(mac)), mac)

\* mac.replace(/:/g, "").toUpperCase()
CleanMac(mac) == toUpperCase(RemoveColons(mac))

\* The prefix cut after 4 characters in place of 6.
Oui_short(cleanMac) == SubSeq(cleanMac, 1, IF Len(cleanMac) < 4 THEN Len(cleanMac) ELSE 4)

\* cleanMac.slice(0, 6)
Oui(cleanMac) == SubSeq(cleanMac, 1, IF Len(cleanMac) < 6 THEN Len(cleanMac) ELSE 6)

RECURSIVE OuiReduce(_, _)
\* ouiEntries.reduce((acc, entry) => { acc[entry.prefix.toUpperCase()] =
\* entry.organization.name; return acc; }, {}): the table as a function.
OuiReduce(entries, acc) ==
    IF entries = <<>> THEN acc
    ELSE LET e == Head(entries)
             k == toUpperCase(e.prefix)
         IN  OuiReduce(Tail(entries),
                       [x \in DOMAIN acc \cup {k} |-> IF x = k THEN e.name ELSE acc[x]])

\* loadOuiDatabase: the table of the file, {} when reading or parsing throws.
loadOuiDatabase(file) ==
    IF file.kind = "entries" THEN OuiReduce(file.entries, <<>>) ELSE <<>>

\* this.ouiDatabase?.[oui] || "Unknown"
VendorOf(db, oui) ==
    IF db.isNull THEN Unknown
    ELSE IF oui \in DOMAIN db.table THEN OrElse(db.table[oui], Unknown) ELSE Unknown

(***************************************************************************)
(* The name-resolution methods.  An answer of the environment is a record  *)
(* whose kind is "throw" when the awaited operation rejects.               *)
(***************************************************************************)
\* getDeviceName, first try block with its catch removed: the rejection of
\* Deno.readTextFile leaves getDeviceName.
LeaseStep_nocatch(out, ip) ==
    IF out.kind = "throw" THEN [threw |-> TRUE, value |-> <<>>]
    ELSE [threw |-> FALSE, value |-> IF out.ip = ip THEN out.host ELSE <<>>]

\* getDeviceName, first try block: match?.[1] of the lease of this ip in the
\* lease file, "" when there is none; catch {} swallows a failed read.
LeaseStep(out, ip) ==
    IF out.kind = "throw" THEN [threw |-> FALSE, value |-> <<>>]
    ELSE [threw |-> FALSE, value |-> IF out.ip = ip THEN out.host ELSE <<>>]

\* getDeviceName, second try block with its catch removed: a failed fetch
\* leaves getDeviceName.
UpnpStep_nocatch(out) ==
    IF out.kind = "throw" THEN [threw |-> TRUE, value |-> <<>>]
    ELSE [threw |-> FALSE, value |-> IF out.ok THEN out.friendly ELSE <<>>]

\* getDeviceName, second try block: match?.[1] of <friendlyName> when the
\* response is ok; catch {} swallows a failed or timed-out fetch.
UpnpStep(out) ==
    IF out.kind = "throw" THEN [threw |-> FALSE, value |-> <<>>]
    ELSE [threw |-> FALSE, value |-> IF out.ok THEN out.friendly ELSE <<>>]

\* getDeviceName: return "Unknown" after both tries.
GetDeviceNameFallback == Unknown

\* resolveMdnsName
resolveMdnsName(out) ==
    IF out.kind = "throw" THEN Unknown
    ELSE OrElse(IF out.hasTab THEN Trim(out.field) ELSE <<>>, Unknown)

\* resolveNetbiosName
resolveNetbiosName(out) ==
    IF out.kind = "throw" THEN Unknown ELSE OrElse(out.unique, Unknown)

\* resolveDnsName
resolveDnsName(out) ==
    IF out.kind = "throw" THEN Unknown
    ELSE OrElse(IF out.records = <<>> THEN <<>> ELSE StripTrailingDot(out.records[1]),
                Unknown)

\* The operands of the || expression of enrichDevices, in order.
OrOperands == <<"getDeviceName", "mdns", "netbios", "dns">>

(***************************************************************************)
(* The ping sweep's promises.                                              *)
(***************************************************************************)
\* const BATCH_SIZE = 50
BATCH_SIZE == 50

\* options.pingTimeout ?? 100
DefaultPingTimeout == 100

\* The test with > in place of >=.
BatchFull_late(len) == len > BATCH_SIZE

\* if (batch.length >= BATCH_SIZE)
BatchFull(len) == len >= BATCH_SIZE

\* pingSubnet returning without awaiting the last, partial batch.
FinalAwait_skipped(len) == FALSE

\* if (batch.length > 0) await Promise.all(batch)
FinalAwait(len) == len > 0

\* The state of the promise of output() for a probe: the command ran (with
\* exit code 0 or, for no reply within the timeout, 1) or could not be run.
OutputPromise(outcome) == IF outcome = "spawnError" THEN "rejected" ELSE "fulfilled"

\* .then(() => {})
ThenVoid(p) == p

\* The promise without its .catch(() => {}).
CatchVoid_missing(p) == p

\* .catch(() => {})
CatchVoid(p) == "fulfilled"

\* Promise.all that does not wait for its promises.
PromiseAll_nowait(nPending, anyRejected) == "fulfilled"

\* The state of Promise.all(batch): rejected as soon as one promise is,
\* fulfilled when all are.
PromiseAll(nPending, anyRejected) ==
    IF anyRejected THEN "rejected"
    ELSE IF nPending = 0 THEN "fulfilled" ELSE "pending"

\* Math.ceil(timeout / 1000)
CeilSeconds(timeout) == (timeout + 999) \div 1000

\* pingCmd: the flag and the value of the timeout argument.
PingCmd(buildOs, timeout, ip) ==
    IF buildOs = "windows"
    THEN [flag |-> "-w", value |-> timeout, target |-> ip]
    ELSE [flag |-> "-W", value |-> CeilSeconds(timeout), target |-> ip]

\* options.pingTimeout ?? 100
PingTimeoutOf(opts) ==
    IF opts.pingTimeout.defined THEN opts.pingTimeout.ms ELSE DefaultPingTimeout

\* The loop over the interfaces without the test of the family.
FamilySkips_never(iface) == FALSE

\* if (iface.family !== "IPv4") continue
FamilySkips(iface) == iface.family # "IPv4"

\* The loop over the interfaces without the test of the filter.
FilterSkips_never(opts, iface) == FALSE

\* options.interfaceFilter && iface.name !== options.interfaceFilter
FilterSkips(opts, iface) ==
    /\ opts.interfaceFilter.defined
    /\ opts.interfaceFilter.name # ""
    /\ iface.name # opts.interfaceFilter.name

(***************************************************************************)
(* Inputs of the model: what the operating system and the network answer.  *)
(***************************************************************************)
\* The netmask of prefix length p.
PrefixMask(p) ==
    [i \in 1..4 |->
        LET bits == IF p - 8 * (i - 1) < 0 THEN 0
                    ELSE IF p - 8 * (i - 1) > 8 THEN 8 ELSE p - 8 * (i - 1)
        IN  256 - 2^(8 - bits)]

\* Interface addresses and contiguous netmasks of the sweep: /0 and the
\* prefixes with at most MaxHostBits host bits.
SweepIps == {<<192, 168, 1, 1>>, <<192, 168, 1, 0>>, <<10, 0, 0, 5>>}
SweepMasks == {PrefixMask(p) : p \in {0} \cup ((32 - MaxHostBits)..32)}

Eth0 == [name |-> "eth0", address |-> <<192, 168, 1, 1>>,
         netmask |-> <<255, 255, 255, 248>>, family |-> "IPv4"]
\* An IPv6 entry of the same interface (its address is never read).
Eth0v6 == [name |-> "eth0", address |-> <<0, 0, 0, 0>>,
           netmask |-> <<0, 0, 0, 0>>, family |-> "IPv6"]
Wlan0 == [name |-> "wlan0", address |-> <<10, 0, 0, 1>>,
          netmask |-> <<255, 255, 255, 252>>, family |-> "IPv4"]
IfaceSet == {Eth0, Eth0v6, Wlan0}

RECURSIVE SeqsUpTo(_, _)
\* The sequences of distinct elements of S of length at most n.
SeqsUpTo(S, n) ==
    IF n = 0 THEN {<<>>}
    ELSE LET shorter == SeqsUpTo(S, n - 1)
         IN  shorter \cup
             UNION { {Append(q, x) : x \in {y \in S : \A i \in 1..Len(q) : q[i] # y}} :
                     q \in shorter }

NoFilter == [defined |-> FALSE, name |-> ""]
FilterSet == {NoFilter} \cup {[defined |-> TRUE, name |-> n] : n \in {"", "eth0", "wlan0"}}
NoTimeout == [defined |-> FALSE, ms |-> 0]
TimeoutSet == {NoTimeout} \cup {[defined |-> TRUE, ms |-> t] : t \in {50, 1500}}

\* Tokens that follow the address on a line of the arp output.
MacHyphen == <<"a", "a", "-", "b", "b", "-", "c", "c", "-", "d", "d", "-", "e", "e", "-", "f", "f">>
MacColon  == <<"a", "1", ":", "b", "2", ":", "c", "3", ":", "d", "4", ":", "e", "5", ":", "f", "6">>
MacZeros  == <<"0", "0", "-", "0", "0", "-", "0", "0", "-", "0", "0", "-", "0", "0", "-", "0", "0">>
HexRun    == <<"a", "a", "b", "b", "c", "c", "d", "d", "e", "e", "f", "f", "0", "0", "1", "1", "2">>
ShortTok  == <<"a", "a", "-", "b", "b">>

WinLine(ip, field) == [lead |-> TRUE, ip |-> ip, ether |-> FALSE, field |-> field]
UnixLine(ip, field) == [lead |-> FALSE, ip |-> ip, ether |-> TRUE, field |-> field]

ArpTexts ==
    { <<>>,
      <<WinLine(<<192, 168, 1, 2>>, MacHyphen)>>,
      <<WinLine(<<192, 168, 1, 2>>, MacHyphen), WinLine(<<192, 168, 1, 3>>, MacZeros)>>,
      <<UnixLine(<<192, 168, 1, 3>>, MacColon), WinLine(<<192, 168, 1, 2>>, MacHyphen)>>,
      <<WinLine(<<192, 168, 1, 2>>, MacHyphen), WinLine(<<10, 0, 0, 2>>, MacColon)>>,
      <<WinLine(<<192, 168, 1, 2>>, MacHyphen), UnixLine(<<192, 168, 1, 2>>, MacColon)>>,
      <<WinLine(<<192, 168, 1, 4>>, HexRun)>>,
      <<WinLine(<<192, 168, 1, 5>>, ShortTok)>> }

\* What running "arp -a" gives: output() rejects (the command cannot be
\* launched), or the process ran and wrote lines with an exit code.
ArpThrow == [kind |-> "throw", code |-> 0, lines |-> <<>>]
ArpOutcomes ==
    {ArpThrow}
    \cup {[kind |-> "output", code |-> 0, lines |-> t] : t \in ArpTexts}
    \cup {[kind |-> "output", code |-> 1, lines |-> t] :
             t \in {<<>>, <<WinLine(<<192, 168, 1, 2>>, MacHyphen)>>}}

\* ./data/ouis.json: missing, malformed, or a list of entries.
OuiFiles ==
    { [kind |-> "missing", entries |-> <<>>],
      [kind |-> "malformed", entries |-> <<>>],
      [kind |-> "entries",
       entries |-> << [prefix |-> <<"a", "a", "b", "b", "c", "c">>,
                       name |-> <<"A", "c", "m", "e">>] >>] }

\* Answers to the five name-resolution methods.
LeaseAnswers ==
    { [kind |-> "throw", ip |-> <<0, 0, 0, 0>>, host |-> <<>>],
      [kind |-> "file", ip |-> <<0, 0, 0, 0>>, host |-> <<>>],
      [kind |-> "file", ip |-> <<192, 168, 1, 2>>, host |-> <<"p", "c">>] }
UpnpAnswers ==
    { [kind |-> "throw", ok |-> FALSE, friendly |-> <<>>],
      [kind |-> "response", ok |-> FALSE, friendly |-> <<"T", "V">>],
      [kind |-> "response", ok |-> TRUE, friendly |-> <<>>],
      [kind |-> "response", ok |-> TRUE, friendly |-> <<"T", " ", " ", "V">>] }
MdnsAnswers ==
    { [kind |-> "throw", hasTab |-> FALSE, field |-> <<>>],
      [kind |-> "stdout", hasTab |-> FALSE, field |-> <<>>],
      [kind |-> "stdout", hasTab |-> TRUE, field |-> <<"m", "\n">>] }
NetbiosAnswers ==
    { [kind |-> "throw", unique |-> <<>>],
      [kind |-> "stdout", unique |-> <<>>],
      [kind |-> "stdout", unique |-> <<"N", "B">>] }
DnsAnswers ==
    { [kind |-> "throw", records |-> <<>>],
      [kind |-> "records", records |-> <<>>],
      [kind |-> "records", records |-> << <<"h", ".">> >>],
      [kind |-> "records", records |-> << <<".">> >>] }

\* Every combination of answers.
EnvAll ==
    [lease : LeaseAnswers, upnp : UpnpAnswers, mdns : MdnsAnswers,
     netbios : NetbiosAnswers, dns : DnsAnswers]

\* The combinations used when whole scans are explored.
EnvFew ==
    { e \in EnvAll :
        \/ /\ e.lease.kind = "throw" /\ e.upnp.kind = "throw" /\ e.mdns.kind = "throw"
           /\ e.netbios.kind = "throw" /\ e.dns.kind = "throw"
        \/ /\ e.lease.host # <<>> /\ e.upnp.kind = "throw" /\ e.mdns.kind = "throw"
           /\ e.netbios.kind = "throw" /\ e.dns.records = << <<"h", ".">> >>
        \/ /\ e.lease.kind = "file" /\ e.lease.host = <<>>
           /\ e.upnp.ok /\ e.upnp.friendly # <<>> /\ e.mdns.hasTab
           /\ e.netbios.unique # <<>> /\ e.dns.records = << <<"h", ".">> >> }

ProbeOutcomes == {"exit0", "exit1", "spawnError"}

(***************************************************************************)
(* State.                                                                  *)
(***************************************************************************)
VARIABLES
    buildOs,      \* Deno.build.os
    arpChoices,   \* what running "arp -a" can give in this execution
    options,      \* the argument of scan()
    interfaces,   \* what Deno.networkInterfaces() returns
    ouiFile,      \* what reading and parsing ./data/ouis.json gives
    env,          \* the answers of the name-resolution services
    ouiDatabase,  \* NetworkScanner.ouiDatabase
    pc,           \* where scan() is suspended
    ifIdx,        \* position of the for loop over interfaces
    results,      \* scan's results
    gen,          \* pingSubnet: the generator ips
    batchLen,     \* pingSubnet: batch.length
    pending,      \* probes issued whose promise has not settled
    rejected,     \* whether a promise of the batch is rejected
    count,        \* pingSubnet: count
    pingCmd,      \* pingSubnet: the timeout argument and target of pingCmd
    probeFailed,  \* whether a probe of this sweep ended other than with exit 0
    arpOut,       \* what the last run of "arp -a" gave
    arpCache,     \* scan: arpCache
    devices,      \* enrichDevices: devices
    devIdx,       \* enrichDevices: idx
    enriched,     \* enrichDevices: results
    chain,        \* the methods invoked for the device being enriched, in order
    inflight,     \* the name-resolution operations started and not yet settled
    arpLog,       \* what each run of "arp -a" of this call gave, in order
    calls,        \* how many times scan() has been called, one after the other
    prevResults,  \* what the previous call returned
    prevArpLog,   \* arpLog of the previous call
    loadLog,      \* what ./data/ouis.json gave at each assignment of ouiDatabase
    pc2           \* where a second scan(), overlapping the calls above, is suspended

vars == <<buildOs, options, interfaces, ouiFile, env, ouiDatabase, pc, ifIdx,
          results, gen, batchLen, pending, rejected, count, pingCmd, probeFailed,
          arpOut, arpCache, devices, devIdx, enriched, chain, arpChoices, inflight,
          arpLog, calls, prevResults, prevArpLog, loadLog, pc2>>

inputVars == <<buildOs, options, interfaces, ouiFile, env, arpChoices>>
callVars == <<calls, prevResults, prevArpLog, loadLog, pc2>>
sweepVars == <<gen, batchLen, pending, rejected, count, pingCmd, probeFailed>>
enrichVars == <<devices, devIdx, enriched, chain>>

NoPing == [flag |-> "", value |-> 0, target |-> <<0, 0, 0, 0>>]

\* The local state of a scan() that has not reached any of its stages.
Idle ==
    /\ ifIdx = 1
    /\ results = <<>>
    /\ gen = NewGenerator(<<0, 0, 0, 0>>, <<0, 0, 0, 0>>)
    /\ batchLen = 0
    /\ pending = 0
    /\ rejected = FALSE
    /\ count = 0
    /\ pingCmd = NoPing
    /\ probeFailed = FALSE
    /\ arpOut = ArpThrow
    /\ arpCache = <<>>
    /\ devices = <<>>
    /\ devIdx = 0
    /\ enriched = <<>>
    /\ chain = <<>>
    /\ inflight = {}
    /\ arpLog = <<>>

\* A fresh process: the static table is null and scan() was never called.
FreshProcess ==
    /\ ouiDatabase = [isNull |-> TRUE, table |-> <<>>]
    /\ calls = 1
    /\ prevResults = <<>>
    /\ prevArpLog = <<>>
    /\ loadLog = <<>>
    /\ pc2 = "idle"

\* scan() is called in a fresh process.
Init ==
    /\ buildOs = "linux"
    /\ options \in [interfaceFilter : FilterSet, pingTimeout : {NoTimeout}]
    /\ interfaces \in SeqsUpTo(IfaceSet, MaxIfaces)
    /\ ouiFile \in OuiFiles
    /\ env \in EnvFew
    /\ arpChoices = ArpOutcomes
    /\ FreshProcess
    /\ pc = "start"
    /\ Idle

(***************************************************************************)
(* scan(): one action for each stretch of code between two awaits.         *)
(***************************************************************************)
\* scan() without the test of the cached table: every call loads it.
NeedsLoad_always(db) == TRUE

\* if (!this.ouiDatabase)
NeedsLoad(db) == db.isNull

\* scan() up to its first await: the table is loaded only when it is null.
ScanStart ==
    /\ pc = "start"
    /\ pc' = IF NeedsLoad(ouiDatabase) THEN "loadOui" ELSE "iface"
    /\ UNCHANGED <<inputVars, ouiDatabase, ifIdx, results, sweepVars, arpOut,
                   arpCache, enrichVars, inflight, arpLog, callVars>>

\* this.ouiDatabase = await this.loadOuiDatabase()
LoadOuiSettle ==
    /\ pc = "loadOui"
    /\ ouiDatabase' = [isNull |-> FALSE, table |-> loadOuiDatabase(ouiFile)]
    /\ loadLog' = Append(loadLog, ouiFile)
    /\ pc' = "iface"
    /\ UNCHANGED <<inputVars, ifIdx, results, sweepVars, arpOut, arpCache, enrichVars,
                   inflight, arpLog, calls, prevResults, prevArpLog, pc2>>

\* The head of for (const iface of interfaces): return results after the
\* last interface, skip a filtered or non-IPv4 one, else enter pingSubnet.
IfaceNext ==
    /\ pc = "iface"
    /\ IF ifIdx > Len(interfaces)
       THEN /\ pc' = "done"
            /\ UNCHANGED <<ifIdx, sweepVars>>
       ELSE LET iface == interfaces[ifIdx]
            IN  IF FilterSkips(options, iface) \/ FamilySkips(iface)
                THEN /\ ifIdx' = ifIdx + 1
                     /\ UNCHANGED <<pc, sweepVars>>
                ELSE /\ gen' = NewGenerator(iface.address, iface.netmask)
                     /\ batchLen' = 0
                     /\ count' = 0
                     /\ probeFailed' = FALSE
                     /\ pc' = "pingLoop"
                     /\ UNCHANGED <<ifIdx, pending, rejected, pingCmd>>
    /\ UNCHANGED <<inputVars, ouiDatabase, results, arpOut, arpCache, enrichVars,
                   inflight, arpLog, callVars>>

\* One iteration of for (const targetIp of ips): a probe is issued and its
\* promise pushed; a full batch suspends the loop at await Promise.all(batch).
PingIssue ==
    /\ pc = "pingLoop"
    /\ GenNext(gen).state = "suspendedYield"
    /\ gen' = GenNext(gen)
    /\ count' = count + 1
    /\ pingCmd' = PingCmd(buildOs, PingTimeoutOf(options), NumberToIp(gen'.current))
    /\ batchLen' = batchLen + 1
    /\ pending' = pending + 1
    /\ pc' = IF BatchFull(batchLen + 1) THEN "pingAwait" ELSE "pingLoop"
    /\ UNCHANGED <<inputVars, ouiDatabase, ifIdx, results, rejected, probeFailed,
                   arpOut, arpCache, enrichVars, inflight, arpLog, callVars>>

\* The generator is exhausted: if (batch.length > 0) await Promise.all(batch),
\* then pingSubnet returns and scan awaits getArpCache().
PingLoopExit ==
    /\ pc = "pingLoop"
    /\ GenNext(gen).state = "completed"
    /\ gen' = GenNext(gen)
    /\ pc' = IF FinalAwait(batchLen) THEN "pingAwait" ELSE "arp"
    /\ UNCHANGED <<inputVars, ouiDatabase, ifIdx, results, batchLen, pending,
                   rejected, count, pingCmd, probeFailed, arpOut, arpCache, enrichVars,
                   inflight, arpLog, callVars>>

\* A probe ends while pingSubnet is suspended: its promise, the one of
\* output() after .then(() => {}).catch(() => {}), settles.
ProbeSettle ==
    /\ pc = "pingAwait"
    /\ pending > 0
    /\ \E outcome \in ProbeOutcomes :
          /\ rejected' = (rejected \/ CatchVoid(ThenVoid(OutputPromise(outcome))) = "rejected")
          /\ probeFailed' = (probeFailed \/ outcome # "exit0")
    /\ pending' = pending - 1
    /\ UNCHANGED <<inputVars, ouiDatabase, pc, ifIdx, results, gen, batchLen, count,
                   pingCmd, arpOut, arpCache, enrichVars, inflight, arpLog, callVars>>

\* await Promise.all(batch) returns (batch = [] and the loop goes on, or
\* pingSubnet returns after the last batch) or throws.
PingAwaitDone ==
    /\ pc = "pingAwait"
    /\ PromiseAll(pending, rejected) # "pending"
    /\ IF PromiseAll(pending, rejected) = "rejected"
       THEN /\ pc' = "threw"
            /\ UNCHANGED batchLen
       ELSE IF gen.state = "completed"
            THEN /\ pc' = "arp"
                 /\ UNCHANGED batchLen
            ELSE /\ pc' = "pingLoop"
                 /\ batchLen' = 0
    /\ UNCHANGED <<inputVars, ouiDatabase, ifIdx, results, gen, pending, rejected,
                   count, pingCmd, probeFailed, arpOut, arpCache, enrichVars,
                   inflight, arpLog, callVars>>

\* await this.getArpCache() returns; an empty cache or an empty filtered
\* list skips the interface, else enrichDevices is entered.
ArpSettle ==
    /\ pc = "arp"
    /\ \E out \in arpChoices :
          LET cache == getArpCache(out)
              iface == interfaces[ifIdx]
              subnetDevices == filterSubnetDevices(cache, iface.address, iface.netmask)
          IN  /\ arpOut' = out
              /\ arpLog' = Append(arpLog, out)
              /\ arpCache' = cache
              /\ IF Len(cache) = 0 \/ Len(subnetDevices) = 0
                 THEN /\ ifIdx' = ifIdx + 1
                      /\ pc' = "iface"
                      /\ UNCHANGED enrichVars
                 ELSE /\ devices' = subnetDevices
                      /\ devIdx' = 0
                      /\ enriched' = <<>>
                      /\ chain' = <<>>
                      /\ pc' = "enrichLoop"
                      /\ UNCHANGED ifIdx
    /\ UNCHANGED <<inputVars, ouiDatabase, results, sweepVars, inflight, callVars>>

\* An operation is invoked: its promise is pending.
Started(flying, op) == flying \cup {op}

\* The next operation is invoked without awaiting the one before.
Settled_late(flying, op) == flying

\* await returns: the awaited operation has settled.
Settled(flying, op) == flying \ {op}

\* The head of for (const { ip, mac } of devices): getDeviceName(ip) starts
\* by reading the lease file; after the last device enrichDevices returns
\* and scan pushes the enriched devices.
EnrichNext ==
    /\ pc = "enrichLoop"
    /\ IF devIdx < Len(devices)
       THEN /\ devIdx' = devIdx + 1
            /\ chain' = <<"lease">>
            /\ inflight' = Started(inflight, [dev |-> devIdx + 1, op |-> "lease"])
            /\ pc' = "lease"
            /\ UNCHANGED <<results, ifIdx, devices, enriched>>
       ELSE /\ results' = results \o enriched
            /\ ifIdx' = ifIdx + 1
            /\ pc' = "iface"
            /\ UNCHANGED <<enrichVars, inflight>>
    /\ UNCHANGED <<inputVars, ouiDatabase, sweepVars, arpOut, arpCache, arpLog, callVars>>

NameOps == {"lease", "upnp", "mdns", "netbios", "dns"}

\* The operation awaited for the current device settles.  After the lease
\* file comes the UPnP fetch; the value of getDeviceName and of each later
\* operand goes through ||: a truthy value (or the last operand) is the
\* name, else the next operand is invoked.  The device is then pushed.
ResolveSettle ==
    /\ pc \in NameOps
    /\ LET dev   == devices[devIdx]
           lease == LeaseStep(env.lease, dev.ip)
           upnp  == UpnpStep(env.upnp)
           threw == (pc = "lease" /\ lease.threw) \/ (pc = "upnp" /\ upnp.threw)
           toUpnp == pc = "lease" /\ ~Truthy(lease.value)
           k     == CASE pc \in {"lease", "upnp"} -> 1
                      [] pc = "mdns" -> 2
                      [] pc = "netbios" -> 3
                      [] OTHER -> 4
           value == CASE pc = "lease" -> lease.value
                      [] pc = "upnp" -> OrElse(upnp.value, GetDeviceNameFallback)
                      [] pc = "mdns" -> resolveMdnsName(env.mdns)
                      [] pc = "netbios" -> resolveNetbiosName(env.netbios)
                      [] OTHER -> resolveDnsName(env.dns)
           cleanMac == CleanMac(dev.mac)
           rest  == Settled(inflight, [dev |-> devIdx, op |-> pc])
       IN  IF threw
           THEN /\ pc' = "threw"
                /\ inflight' = rest
                /\ UNCHANGED <<chain, enriched>>
           ELSE IF toUpnp
           THEN /\ pc' = "upnp"
                /\ chain' = Append(chain, "upnp")
                /\ inflight' = Started(rest, [dev |-> devIdx, op |-> "upnp"])
                /\ UNCHANGED enriched
           ELSE IF Truthy(value) \/ k = Len(OrOperands)
           THEN /\ enriched' = Append(enriched,
                                  [ip |-> dev.ip,
                                   mac |-> formatMac(cleanMac),
                                   interface |-> interfaces[ifIdx].name,
                                   vendor |-> VendorOf(ouiDatabase, Oui(cleanMac)),
                                   name |-> NormalizeName(value)])
                /\ pc' = "enrichLoop"
                /\ inflight' = rest
                /\ UNCHANGED chain
           ELSE /\ pc' = OrOperands[k + 1]
                /\ chain' = Append(chain, OrOperands[k + 1])
                /\ inflight' = Started(rest, [dev |-> devIdx, op |-> OrOperands[k + 1]])
                /\ UNCHANGED enriched
    /\ UNCHANGED <<inputVars, ouiDatabase, ifIdx, results, sweepVars, arpOut,
                   arpCache, devices, devIdx, arpLog, callVars>>

Next ==
    \/ ScanStart
    \/ LoadOuiSettle
    \/ IfaceNext
    \/ PingIssue
    \/ PingLoopExit
    \/ ProbeSettle
    \/ PingAwaitDone
    \/ ArpSettle
    \/ EnrichNext
    \/ ResolveSettle

Spec == Init /\ [][Next]_vars

(***************************************************************************)
(* Specifications that draw other inputs: a sweep of one interface over    *)
(* the addresses and netmasks of SweepIps and SweepMasks, on both          *)
(* platforms and with several timeouts; and one interface whose devices    *)
(* are resolved under every combination of answers.                        *)
(***************************************************************************)
InitSweep ==
    /\ buildOs \in {"windows", "linux"}
    /\ options \in [interfaceFilter : {NoFilter}, pingTimeout : TimeoutSet]
    /\ interfaces \in {<<[name |-> "eth0", address |-> a, netmask |-> m, family |-> "IPv4"]>> :
                          a \in SweepIps, m \in SweepMasks}
    /\ ouiFile \in {f \in OuiFiles : f.kind = "missing"}
    /\ env \in {e \in EnvFew : e.lease.kind = "throw"}
    /\ arpChoices = ArpOutcomes
    /\ FreshProcess
    /\ pc = "start"
    /\ Idle

SpecSweep == InitSweep /\ [][Next]_vars

InitChain ==
    /\ buildOs = "linux"
    /\ options \in [interfaceFilter : {NoFilter}, pingTimeout : {NoTimeout}]
    /\ interfaces = <<Eth0>>
    /\ ouiFile \in {f \in OuiFiles : f.kind = "entries"}
    /\ env \in EnvAll
    /\ arpChoices = ArpOutcomes
    /\ FreshProcess
    /\ pc = "start"
    /\ Idle

SpecChain == InitChain /\ [][Next]_vars

(***************************************************************************)
(* Several calls in one process: scan() is called again after it returned, *)
(* and one more call is made while a call above is suspended at an await.  *)
(* The static ouiDatabase is the only state the calls share.               *)
(***************************************************************************)
MaxCalls == 2

\* The stages at which scan() is suspended at an await.
AwaitPcs == {"loadOui", "pingAwait", "arp", "lease", "upnp", "mdns", "netbios", "dns"}

\* scan() returned and is called again with the same options: its locals
\* are new.  Between the two calls ./data/ouis.json may have been replaced
\* (no read of it is pending then).
ScanAgain ==
    /\ pc = "done"
    /\ calls < MaxCalls
    /\ pc2 # "loadOui"
    /\ calls' = calls + 1
    /\ prevResults' = results
    /\ prevArpLog' = arpLog
    /\ ouiFile' \in OuiFiles
    /\ pc' = "start"
    /\ ifIdx' = 1
    /\ results' = <<>>
    /\ gen' = NewGenerator(<<0, 0, 0, 0>>, <<0, 0, 0, 0>>)
    /\ batchLen' = 0
    /\ pending' = 0
    /\ rejected' = FALSE
    /\ count' = 0
    /\ pingCmd' = NoPing
    /\ probeFailed' = FALSE
    /\ arpOut' = ArpThrow
    /\ arpCache' = <<>>
    /\ devices' = <<>>
    /\ devIdx' = 0
    /\ enriched' = <<>>
    /\ chain' = <<>>
    /\ inflight' = {}
    /\ arpLog' = <<>>
    /\ UNCHANGED <<buildOs, options, interfaces, env, arpChoices, ouiDatabase,
                   loadLog, pc2>>

\* The options of the overlapping call: a filter that names no interface.
OtherOptions == [interfaceFilter |-> [defined |-> TRUE, name |-> "lo"],
                 pingTimeout |-> NoTimeout]

\* for (const iface of interfaces) of the overlapping call: every interface
\* is skipped, so the call returns [] without another await.
OtherSkipsAll ==
    \A i \in 1..Len(interfaces) :
        FilterSkips(OtherOptions, interfaces[i]) \/ interfaces[i].family # "IPv4"

\* scan(OtherOptions) is called while a call is suspended: it runs up to
\* its first await, or to its return when the table is not null.
Scan2Start ==
    /\ pc2 = "idle"
    /\ pc \in AwaitPcs
    /\ OtherSkipsAll
    /\ pc2' = IF NeedsLoad(ouiDatabase) THEN "loadOui" ELSE "done"
    /\ UNCHANGED <<inputVars, ouiDatabase, pc, ifIdx, results, sweepVars, arpOut,
                   arpCache, enrichVars, inflight, arpLog, calls, prevResults,
                   prevArpLog, loadLog>>

\* this.ouiDatabase = await this.loadOuiDatabase() of the overlapping call,
\* which then skips every interface and returns.
Scan2LoadSettle ==
    /\ pc2 = "loadOui"
    /\ pc \in AwaitPcs \cup {"done", "threw"}
    /\ OtherSkipsAll
    /\ ouiDatabase' = [isNull |-> FALSE, table |-> loadOuiDatabase(ouiFile)]
    /\ loadLog' = Append(loadLog, ouiFile)
    /\ pc2' = "done"
    /\ UNCHANGED <<inputVars, pc, ifIdx, results, sweepVars, arpOut, arpCache,
                   enrichVars, inflight, arpLog, calls, prevResults, prevArpLog>>

NextCalls ==
    \/ Next
    \/ ScanAgain
    \/ Scan2Start
    \/ Scan2LoadSettle

\* One IPv4 interface is scanned; the neighbor table is the same at every
\* read in most executions and changes between reads in the others.
InitCalls ==
    /\ buildOs = "linux"
    /\ options \in [interfaceFilter : {NoFilter}, pingTimeout : {NoTimeout}]
    /\ interfaces \in {<<Eth0>>, <<Eth0v6, Eth0>>}
    /\ ouiFile \in OuiFiles
    /\ env \in EnvFew
    /\ arpChoices \in {{o} : o \in ArpOutcomes}
                      \cup {{ArpThrow,
                             [kind |-> "output", code |-> 0,
                              lines |-> <<WinLine(<<192, 168, 1, 2>>, MacHyphen)>>]}}
    /\ FreshProcess
    /\ pc = "start"
    /\ Idle

SpecCalls == InitCalls /\ [][NextCalls]_vars

(***************************************************************************)
(* Properties.                                                             *)
(***************************************************************************)
\* The five methods in the order the chain is meant to try them.
Methods == <<"lease", "upnp", "mdns", "netbios", "dns">>

\* What method m finds for ip under the answers e ("" or "Unknown": nothing).
MethodValue(m, e, ip) ==
    CASE m = "lease" -> LeaseStep(e.lease, ip).value
      [] m = "upnp" -> UpnpStep(e.upnp).value
      [] m = "mdns" -> resolveMdnsName(e.mdns)
      [] m = "netbios" -> resolveNetbiosName(e.netbios)
      [] OTHER -> resolveDnsName(e.dns)

\* A method succeeds when its result is non-empty and not "Unknown".
Succeeds(m, e, ip) == MethodValue(m, e, ip) # <<>> /\ MethodValue(m, e, ip) # Unknown

\* The position of the first method that succeeds, 6 when none does.
FirstSuccess(e, ip) ==
    IF \E k \in 1..5 : Succeeds(Methods[k], e, ip)
    THEN CHOOSE k \in 1..5 :
            /\ Succeeds(Methods[k], e, ip)
            /\ \A j \in 1..(k - 1) : ~Succeeds(Methods[j], e, ip)
    ELSE 6

\* The name the chain is meant to give ip.
ExpectedName(e, ip) ==
    IF FirstSuccess(e, ip) = 6 THEN Unknown
    ELSE MethodValue(Methods[FirstSuccess(e, ip)], e, ip)

\* enrichDevices is between two devices: the chain of device devIdx ended.
DeviceResolved == pc = "enrichLoop" /\ devIdx >= 1

\* C1: for every enriched device the methods invoked are, in this order,
\* lease file, UPnP, mDNS, NetBIOS, reverse DNS, none of them after the first
\* that succeeds, and the device's name is the result of the first method
\* that succeeds (a reverse-DNS name without its trailing dot when the four
\* methods before it find nothing).
C1_NameIsFirstSuccess ==
    DeviceResolved =>
        LET ip == devices[devIdx].ip
            n  == IF FirstSuccess(env, ip) = 6 THEN 5 ELSE FirstSuccess(env, ip)
        IN  /\ Len(enriched) = devIdx
            /\ Len(chain) <= n
            /\ chain = SubSeq(Methods, 1, Len(chain))
            /\ enriched[devIdx].name = NormalizeName(ExpectedName(env, ip))

\* C2: whenever one of the first four methods was invoked for a device and
\* failed or found nothing, the next method was invoked for it too.
C2_NextMethodStillRuns ==
    DeviceResolved =>
        \A k \in 1..4 :
            ( /\ \E i \in 1..Len(chain) : chain[i] = Methods[k]
              /\ ~Succeeds(Methods[k], env, devices[devIdx].ip) )
            => \E i \in 1..Len(chain) : chain[i] = Methods[k + 1]

\* Every method fails or finds nothing for ip.
AllMethodsFail(e, ip) == FirstSuccess(e, ip) = 6

\* C3: whatever the five operations answer (a result, nothing, a thrown
\* error), the chain never throws, every device whose chain ended has a
\* name, and the name is "Unknown" when every method failed.
C3_ChainAlwaysNames ==
    /\ pc # "threw"
    /\ pc = "enrichLoop" => Len(enriched) = devIdx
    /\ DeviceResolved /\ AllMethodsFail(env, devices[devIdx].ip)
          => enriched[devIdx].name = Unknown

\* A device's chain ended with every method failing, two of them by throwing.
C3_Witness ==
    /\ DeviceResolved
    /\ AllMethodsFail(env, devices[devIdx].ip)
    /\ env.lease.kind = "throw"
    /\ env.upnp.kind = "throw"
    /\ env.dns.kind = "records"
    /\ enriched[devIdx].name = Unknown

\* C4: the number of probes issued and not yet settled never exceeds 50.
C4_AtMost50Outstanding == pending <= 50

\* A full window of 50 probes is outstanding.
C4_Witness == pc = "pingAwait" /\ pending = 50 /\ count > 50

\* C5: the first probe of a window is issued only when no probe is
\* outstanding, so no window starts before the one before it has drained.
C5_WindowBarrier ==
    [][(pc = "pingLoop" /\ batchLen = 0 /\ count' = count + 1) => pending = 0]_vars

\* The first probe of the second window has been issued.
C5_Witness == pc = "pingLoop" /\ count = 51 /\ batchLen = 1 /\ pending = 1

\* The number of addresses the generator of the running sweep yields.
SweepSize ==
    LET d == gen.broadcast - SubnetNetwork(gen.ip, gen.netmask) - 1
    IN  IF d > 0 THEN d ELSE 0

\* C6: whatever the probes' outcomes, the sweep never throws, no promise of
\* a batch is rejected, and when the sweep returns every candidate address
\* has been probed and every probe has settled.
C6_SweepNeverThrows ==
    /\ pc # "threw"
    /\ ~rejected
    /\ pc = "arp" => (gen.state = "completed" /\ pending = 0 /\ count = SweepSize)

\* A sweep of more than one window returned although probes failed.
C6_Witness == pc = "arp" /\ probeFailed /\ count > 50 /\ count = SweepSize

\* Octet-wise network and broadcast address of the unsigned 32-bit reading.
NetworkOctets(ip, mask) == [i \in 1..4 |-> BitAnd(ip[i], mask[i])]
BroadcastOctets(ip, mask) == [i \in 1..4 |-> BitAnd(ip[i], mask[i]) + (255 - mask[i])]

\* a < b for addresses read as unsigned 32-bit big-endian integers.
OctLess(a, b) ==
    \E i \in 1..4 : a[i] < b[i] /\ \A j \in 1..(i - 1) : a[j] = b[j]

\* The address k after a (k < 2^16), modulo 2^32.
AddOct(a, k) ==
    LET lo == a[3] * 256 + a[4] + k
        hi == a[1] * 256 + a[2] + (lo \div 65536)
    IN  << (hi \div 256) % 256, hi % 256, (lo \div 256) % 256, lo % 256 >>

\* C7: the k-th address the generator yields is network + k and lies below
\* the broadcast address, and the generator ends exactly when network + k
\* reaches the broadcast address (at once when nothing lies between them).
C7_RangeIsExact ==
    LET net == NetworkOctets(gen.ip, gen.netmask)
        bc  == BroadcastOctets(gen.ip, gen.netmask)
    IN  /\ (gen.state = "suspendedYield" /\ pc \in {"pingLoop", "pingAwait"})
              => /\ pingCmd.target = AddOct(net, count)
                 /\ OctLess(pingCmd.target, bc)
                 /\ OctLess(net, pingCmd.target)
        /\ gen.state = "completed"
              => IF OctLess(net, bc) /\ AddOct(net, 1) # bc
                 THEN AddOct(net, count + 1) = bc
                 ELSE count = 0

\* The generator runs over 192.168.1.0 with mask 255.255.255.0.
Slash24 ==
    /\ gen.state # "suspendedStart"
    /\ NetworkOctets(gen.ip, gen.netmask) = <<192, 168, 1, 0>>
    /\ gen.netmask = <<255, 255, 255, 0>>

\* C8 as stated: 253 addresses, from 192.168.1.1 to 192.168.1.254.
C8_Yields253 ==
    Slash24 =>
        /\ count = 1 => pingCmd.target = <<192, 168, 1, 1>>
        /\ count >= 1 => pingCmd.target \notin {<<192, 168, 1, 0>>, <<192, 168, 1, 255>>}
        /\ gen.state = "completed" => (count = 253 /\ pingCmd.target = <<192, 168, 1, 254>>)

\* C8, amended: for 192.168.1.0 with mask 255.255.255.0 the generator yields
\* exactly 254 addresses, the first 192.168.1.1 and the last 192.168.1.254,
\* and neither 192.168.1.0 nor 192.168.1.255.
C8_Yields254 ==
    Slash24 =>
        /\ count = 1 => pingCmd.target = <<192, 168, 1, 1>>
        /\ count >= 1 => pingCmd.target \notin {<<192, 168, 1, 0>>, <<192, 168, 1, 255>>}
        /\ gen.state = "completed" => (count = 254 /\ pingCmd.target = <<192, 168, 1, 254>>)

\* The generator over 192.168.1.0/24 has ended after 254 addresses.
C8_Witness == Slash24 /\ gen.state = "completed" /\ count = 254

\* The last run of the neighbor-table utility could not be launched or
\* exited abnormally.
ArpFailed == arpOut.kind = "throw" \/ arpOut.code # 0

\* C9: after the neighbor-table utility could not be launched or exited
\* abnormally for an interface, no device of that interface is enriched and
\* the scan goes on to the next interface without throwing.
C9_ArpFailureSkipsInterface ==
    /\ (pc \in ({"enrichLoop"} \cup NameOps)) => ~ArpFailed
    /\ pc # "threw"

UpperHex ==
    {"0", "1", "2", "3", "4", "5", "6", "7", "8", "9", "A", "B", "C", "D", "E", "F"}

\* Six groups of two uppercase hex digits separated by colons.
WellFormedMac(mac) ==
    /\ Len(mac) = 17
    /\ \A i \in 1..17 : IF i % 3 = 0 THEN mac[i] = ":" ELSE mac[i] \in UpperHex

\* C10: every hardware address of the parsed neighbor table and of every
\* device of scan() is six two-digit uppercase hex groups joined by colons.
C10_MacsWellFormed ==
    /\ \A i \in 1..Len(arpCache) : WellFormedMac(arpCache[i].mac)
    /\ \A i \in 1..Len(enriched) : WellFormedMac(enriched[i].mac)
    /\ \A i \in 1..Len(results) : WellFormedMac(results[i].mac)

\* ip and the address of iface agree on every bit the netmask sets, octet by
\* octet.
OctetsInSubnet(ip, iface) ==
    \A i \in 1..4 : BitAnd(ip[i], iface.netmask[i]) = BitAnd(iface.address[i], iface.netmask[i])

EnrichPcs == {"enrichLoop"} \cup NameOps

\* C11: every device of scan() has an IP inside the subnet of the interface
\* it is attributed to, (ip & mask) = (interface address & mask), whatever
\* the neighbor table contains and however many interfaces are scanned.
C11_DevicesInSubnet ==
    /\ pc \in EnrichPcs =>
           \A k \in 1..Len(enriched) : OctetsInSubnet(enriched[k].ip, interfaces[ifIdx])
    /\ \A k \in 1..Len(results) :
           \E j \in 1..Len(interfaces) :
              /\ interfaces[j].family = "IPv4"
              /\ interfaces[j].name = results[k].interface
              /\ OctetsInSubnet(results[k].ip, interfaces[j])

\* A scan returned a device of 192.168.1.0/29 after a neighbor table that
\* also held 10.0.0.2, which is in the subnet of no scanned interface.
C11_Witness ==
    /\ pc = "done"
    /\ results # <<>>
    /\ \A j \in 1..Len(interfaces) : interfaces[j] # Wlan0
    /\ \E n \in 1..Len(arpLog) : \E i \in 1..Len(arpLog[n].lines) :
          arpLog[n].lines[i].ip = <<10, 0, 0, 2>>
    /\ \A k \in 1..Len(results) : results[k].ip # <<10, 0, 0, 2>>

\* The interfaces scan() does not skip.
ScannedIfaces ==
    {j \in 1..Len(interfaces) :
        interfaces[j].family = "IPv4" /\ ~FilterSkips(options, interfaces[j])}

\* A line of the neighbor table that holds an address and a 17-character
\* hardware address.
TableEntry(line) == WinMatch(line) \/ UnixMatch(line)

\* The hardware address of the line has a digit other than 0.
NonZeroAddress(line) ==
    \E i \in 1..17 : line.field[i] \notin {"0", ":", "-"}

\* The IPs a scan of iface is to return for the neighbor table lines.
ExpectedIps(lines, iface) ==
    {lines[i].ip : i \in {n \in 1..Len(lines) :
                             /\ TableEntry(lines[n])
                             /\ NonZeroAddress(lines[n])
                             /\ OctetsInSubnet(lines[n].ip, iface)}}

\* scan() returned after it scanned one interface and read the table once.
OneInterfaceScanned ==
    /\ pc = "done"
    /\ Cardinality(ScannedIfaces) = 1
    /\ Len(arpLog) = 1
    /\ arpLog[1].kind = "output"

\* C12: for one scanned interface scan() returns exactly one device for each
\* distinct IP of the neighbor table whose hardware address is not all zeros
\* and whose IP is in the subnet, and no other device; an entry with the
\* all-zero address never produces a device.
C12_OneDevicePerEntry ==
    OneInterfaceScanned =>
        LET iface == interfaces[CHOOSE j \in ScannedIfaces : TRUE]
            ips   == ExpectedIps(arpLog[1].lines, iface)
        IN  /\ {results[k].ip : k \in 1..Len(results)} = ips
            /\ Len(results) = Cardinality(ips)
            /\ \A k \in 1..Len(results) : results[k].interface = iface.name

\* The table held one valid entry and one with the all-zero address, and
\* the scan returned exactly one device.
C12_Witness ==
    /\ OneInterfaceScanned
    /\ Len(arpLog[1].lines) = 2
    /\ \E i \in 1..2 : TableEntry(arpLog[1].lines[i]) /\ ~NonZeroAddress(arpLog[1].lines[i])
    /\ Len(results) = 1

\* C13: over any number of scan() calls of one process, calls that overlap
\* at their awaits included, ouiDatabase is assigned exactly once: never a
\* second time, and once by the time a call is past its load.
C13_TableWrittenOnce ==
    /\ Len(loadLog) <= 1
    /\ pc \notin {"start", "loadOui"} => Len(loadLog) = 1

\* The first six hex digits of a hardware address, separators removed.
PrefixOf(mac) ==
    LET digits == SelectSeq(mac, LAMBDA c : c \notin {":", "-"})
    IN  SubSeq(toUpperCase(digits), 1, 6)

\* The organization name the file gives for the prefix of mac, "Unknown"
\* when the file could not be loaded or has no entry for it.
ExpectedVendor(file, mac) ==
    LET hits == {i \in 1..Len(file.entries) :
                    toUpperCase(file.entries[i].prefix) = PrefixOf(mac)}
    IN  IF file.kind = "entries" /\ hits # {}
        THEN file.entries[CHOOSE i \in hits : \A j \in hits : j <= i].name
        ELSE Unknown

\* A load of the organization table has failed in this process.
LoadFailed == \E i \in 1..Len(loadLog) : loadLog[i].kind # "entries"

\* The devices of the current call, enriched or returned.
CallDevices ==
    {enriched[k] : k \in 1..Len(enriched)} \cup {results[k] : k \in 1..Len(results)}

\* C14: the vendor of every device is the organization name of the loaded
\* table for the first 6 hex digits of its hardware address, "Unknown" when
\* the table has no such prefix; when loading the table fails the scan does
\* not fail, the table is empty, and every lookup of that scan and of every
\* later scan yields "Unknown".
C14_VendorLookupTotal ==
    /\ pc # "threw"
    /\ loadLog # <<>> =>
          \A d \in CallDevices : d.vendor = ExpectedVendor(loadLog[Len(loadLog)], d.mac)
    /\ LoadFailed =>
          /\ ouiDatabase.table = <<>>
          /\ \A d \in CallDevices : d.vendor = Unknown

\* The first call could not load the table; a later call, made after the
\* file was put in place, returned a device whose prefix the file names,
\* with vendor "Unknown".
C14_Witness ==
    /\ pc = "done"
    /\ calls = 2
    /\ LoadFailed
    /\ ouiFile.kind = "entries"
    /\ \E k \in 1..Len(results) :
          /\ ExpectedVendor(ouiFile, results[k].mac) # Unknown
          /\ results[k].vendor = Unknown

\* The table was loaded and a device got the organization name of its prefix.
C14_WitnessNamed ==
    /\ pc = "done"
    /\ ~LoadFailed
    /\ \E k \in 1..Len(results) : results[k].vendor = <<"A", "c", "m", "e">>

\* C18: two consecutive scan() calls of one process with the same options,
\* interface list and name-resolution answers, whose reads of the neighbor
\* table gave the same, return the same list, in content and in order; the
\* second call uses the cached vendor table.
C18_Idempotent ==
    (pc = "done" /\ calls >= 2 /\ arpLog = prevArpLog) => results = prevResults

\* A second call returned a non-empty list after the same neighbor table,
\* the file of the vendor table having changed since the table was loaded.
C18_Witness ==
    /\ pc = "done"
    /\ calls = 2
    /\ arpLog = prevArpLog
    /\ results # <<>>
    /\ loadLog # <<>>
    /\ ouiFile.kind # loadLog[1].kind
    /\ results = prevResults

\* Every run of the neighbor-table utility of this call failed to launch.
ArpUnavailable == \A n \in 1..Len(arpLog) : arpLog[n].kind = "throw"

\* scan() is at a stage it can leave: the generator yields or ends, a probe
\* of the awaited batch can settle or none is left, the neighbor-table
\* utility gives some outcome.
CanStep ==
    CASE pc = "pingLoop" -> GenNext(gen).state \in {"suspendedYield", "completed"}
      [] pc = "pingAwait" -> pending > 0 \/ PromiseAll(pending, rejected) # "pending"
      [] pc = "arp" -> arpChoices # {}
      [] pc \in {"done", "threw"} -> FALSE
      [] OTHER -> TRUE

\* C15: once the interfaces are enumerated scan() neither throws nor stops
\* before it returns, whatever the table load, the probes, the neighbor-table
\* read and the name-resolution methods give; the list it returns is empty
\* when no interface matches the filter and when the neighbor-table utility
\* is unavailable.
C15_ScanAlwaysReturns ==
    /\ pc # "threw"
    /\ pc = "done" \/ CanStep
    /\ (pc = "done" /\ ScannedIfaces = {}) => results = <<>>
    /\ (pc = "done" /\ ArpUnavailable) => results = <<>>

\* scan() returned the empty list after the table file was missing, a probe
\* failed and the neighbor-table utility could not be launched.
C15_Witness ==
    /\ pc = "done"
    /\ loadLog # <<>> /\ loadLog[1].kind = "missing"
    /\ probeFailed
    /\ arpLog # <<>> /\ ArpUnavailable
    /\ results = <<>>

\* scan() returned the empty list because its filter names no interface.
C15_WitnessNoMatch ==
    /\ pc = "done"
    /\ interfaces # <<>>
    /\ \A j \in 1..Len(interfaces) : FilterSkips(options, interfaces[j])
    /\ results = <<>>

\* scan() returned devices after every name-resolution method threw.
C15_WitnessNamesThrow ==
    /\ pc = "done"
    /\ env.lease.kind = "throw" /\ env.upnp.kind = "throw" /\ env.dns.kind = "throw"
    /\ results # <<>>

\* The stages of scan() that work on interface ifIdx.
IfacePcs == {"pingLoop", "pingAwait", "arp"} \cup EnrichPcs

\* Every device has the filter string as its interface, and the interface
\* being swept or enriched and the interface of every device is IPv4.
FilterHonoured ==
    /\ \A d \in CallDevices : d.interface = options.interfaceFilter.name
    /\ pc \in IfacePcs => interfaces[ifIdx].family = "IPv4"
    /\ \A d \in CallDevices :
          \E j \in 1..Len(interfaces) :
             interfaces[j].family = "IPv4" /\ interfaces[j].name = d.interface

\* C16 as stated: for any interface filter string given to scan(), every
\* returned device has that string as its interface field and comes from an
\* IPv4 interface.
C16_AnyFilterString == options.interfaceFilter.defined => FilterHonoured

\* C16: for any non-empty interface filter string given to scan(), every
\* returned device has that string as its interface field and comes from an
\* IPv4 interface.
C16_NonEmptyFilterString ==
    (options.interfaceFilter.defined /\ options.interfaceFilter.name # "") => FilterHonoured

\* scan() filtered on "eth0" returned devices although the host also has
\* wlan0, whose subnet holds an entry of the neighbor table.
C16_Witness ==
    /\ pc = "done"
    /\ options.interfaceFilter.defined
    /\ options.interfaceFilter.name = "eth0"
    /\ \E j \in 1..Len(interfaces) : interfaces[j] = Wlan0
    /\ \E n \in 1..Len(arpLog) : \E i \in 1..Len(arpLog[n].lines) :
          OctetsInSubnet(arpLog[n].lines[i].ip, Wlan0)
    /\ results # <<>>

\* The place in the list of the operating system of the scanned interface
\* that bears the name.
IfacePos(name) == CHOOSE j \in ScannedIfaces : interfaces[j].name = name

\* The IPs of the entries of the cache that are in the subnet of iface, in
\* the order of the cache.
Survivors(cache, iface) ==
    LET kept == SelectSeq(cache, LAMBDA e : OctetsInSubnet(e.ip, iface))
    IN  [i \in 1..Len(kept) |-> kept[i].ip]

IpsOf(devs) == [i \in 1..Len(devs) |-> devs[i].ip]

\* The devices of an interface are enriched in the order of the survivors,
\* and no device of the list is of an interface that comes before the
\* interface of a device that precedes it.
OrderedSoFar ==
    /\ \A a, b \in 1..Len(results) :
          a < b => IfacePos(results[a].interface) <= IfacePos(results[b].interface)
    /\ pc \in EnrichPcs =>
          LET ips == Survivors(arpCache, interfaces[ifIdx])
          IN  /\ Len(enriched) <= Len(ips)
              /\ IpsOf(enriched) = SubSeq(ips, 1, Len(enriched))

\* The list grows only by all the devices of the interface just enriched,
\* added at its end in their order.
AppendsInterface ==
    (results' # results /\ calls' = calls) =>
        /\ results' = results \o enriched
        /\ IpsOf(enriched) = Survivors(arpCache, interfaces[ifIdx])
        /\ \A k \in 1..Len(enriched) : enriched[k].interface = interfaces[ifIdx].name

\* C17: the list of scan() is ordered: the devices of an earlier interface
\* of the operating system's list all precede those of a later one, and the
\* devices of one interface are in the order in which their entries survived
\* the subnet filter.
C17_ListOrdered == []OrderedSoFar /\ [][AppendsInterface]_vars

\* scan() returned two devices of the first interface followed by one of
\* the second.
C17_Witness ==
    /\ pc = "done"
    /\ Len(results) = 3
    /\ IfacePos(results[1].interface) = IfacePos(results[2].interface)
    /\ IfacePos(results[2].interface) < IfacePos(results[3].interface)

\* C19: at every moment of a scan at most one name-resolution operation
\* (lease-file read, UPnP fetch, mDNS, NetBIOS or DNS query) is in flight,
\* and it is of the device that follows the devices already resolved: the
\* resolution of a device starts only after that of the device before it
\* has finished.
C19_OneResolutionInFlight ==
    /\ Cardinality(inflight) <= 1
    /\ \A o \in inflight :
          /\ o.op \in NameOps
          /\ o.dev = devIdx
          /\ Len(enriched) = o.dev - 1
    /\ pc \in NameOps => inflight # {}

\* The UPnP fetch of the second device is in flight, the first device
\* being resolved.
C19_Witness ==
    /\ inflight = {[dev |-> 2, op |-> "upnp"]}
    /\ Len(enriched) = 1

\* How many scanned interfaces come before interface ifIdx.
ScannedBefore == Cardinality({j \in ScannedIfaces : j < ifIdx})

\* C20: the neighbor table is read for an interface only after every probe
\* issued for its subnet has settled; the enrichment of its devices starts
\* only after the table has been read and filtered; the probes of the next
\* interface start only after the enrichment of the current one has
\* finished and its devices are in the list.
C20_StageOrder ==
    /\ pc = "arp" =>
          /\ gen.state = "completed"
          /\ pending = 0
          /\ Len(arpLog) = ScannedBefore
    /\ pc \in EnrichPcs =>
          /\ pending = 0
          /\ Len(arpLog) = ScannedBefore + 1
          /\ arpCache = getArpCache(arpLog[Len(arpLog)])
          /\ IpsOf(devices) = Survivors(arpCache, interfaces[ifIdx])
    /\ pc \in {"pingLoop", "pingAwait"} =>
          /\ inflight = {}
          /\ Len(arpLog) = ScannedBefore
          /\ Len(enriched) <= Len(results)
          /\ SubSeq(results, Len(results) - Len(enriched) + 1, Len(results)) = enriched

\* The probes of the second interface are being issued, the devices of the
\* first being in the list.
C20_Witness ==
    /\ pc = "pingLoop"
    /\ ifIdx = 2
    /\ count >= 1
    /\ ScannedBefore = 1
    /\ results # <<>>

\* The neighbor table is about to be read after probes of the sweep failed.
C20_WitnessArp ==
    /\ pc = "arp"
    /\ count >= 6
    /\ probeFailed

\* The time the ping utility waits for a reply under the arguments of the
\* probe, in milliseconds: -w of the Windows utility counts milliseconds,
\* -W of the Linux utility counts seconds.
AppliedTimeoutMs(cmd) == IF cmd.flag = "-w" THEN cmd.value ELSE cmd.value * 1000

\* The per-probe timeout of the options, 100 when the option is omitted.
ConfiguredTimeoutMs ==
    IF options.pingTimeout.defined THEN options.pingTimeout.ms ELSE 100

\* C21: the timeout applied to each probe equals the configured per-probe
\* timeout in milliseconds, 100 ms when the option is omitted, on every
\* platform.
C21_TimeoutAsConfigured ==
    pingCmd # NoPing => AppliedTimeoutMs(pingCmd) = ConfiguredTimeoutMs

\* C21 on Windows alone.
C21_OnWindows ==
    (pingCmd # NoPing /\ buildOs = "windows") => AppliedTimeoutMs(pingCmd) = ConfiguredTimeoutMs

\* The k-th address after the network address of the running sweep, as the
\* 32-bit number the generator counts with.
Candidate(k) == NumberToIp(SubnetNetwork(gen.ip, gen.netmask) + k)

\* A step of the sweep that takes an address from the generator issues one
\* probe, for that address, the one after the address probed before it.
OneProbePerCandidate ==
    (pc = "pingLoop" /\ gen' # gen /\ gen'.state = "suspendedYield") =>
        /\ count' = count + 1
        /\ pending' = pending + 1
        /\ pingCmd'.target = Candidate(count + 1)
        /\ count >= 1 => pingCmd'.target # pingCmd.target

\* No probe is issued but for an address taken from the generator.
NoOtherProbe ==
    (count' # count \/ pending' > pending) =>
        (pc = "iface" /\ count' = 0 /\ pending' = pending)
        \/ (calls' # calls)
        \/ (pc = "pingLoop" /\ gen'.state = "suspendedYield" /\ gen' # gen)

\* The sweep has returned: every address of the generator was probed and
\* no probe is pending, those of the last window included.
SweepComplete ==
    pc \in {"arp"} \cup EnrichPcs =>
        /\ gen.state = "completed"
        /\ count = SweepSize
        /\ pending = 0

\* C22: for every subnet size, sizes that are not a multiple of 50
\* included, the sweep issues exactly one probe for each address of the
\* address range generator, and it returns only after every probe issued,
\* those of the final partial window included, has settled.
C22_OneProbeEachAllSettled ==
    []SweepComplete /\ [][OneProbePerCandidate /\ NoOtherProbe]_vars

\* A sweep of 254 addresses has returned: five windows of 50 and a last
\* window of 4 probes, some of which failed.
C22_Witness ==
    /\ pc = "arp"
    /\ count = 254
    /\ batchLen = 4
    /\ pending = 0
    /\ probeFailed

\* Interface j does not match the configured filter or is not IPv4.
ToBeSkipped(j) ==
    \/ interfaces[j].family # "IPv4"
    \/ /\ options.interfaceFilter.defined
       /\ options.interfaceFilter.name # ""
       /\ interfaces[j].name # options.interfaceFilter.name

\* The loop of scan() is at the head of an interface to be skipped.
AtSkippedInterface == pc = "iface" /\ ifIdx <= Len(interfaces) /\ ToBeSkipped(ifIdx)

\* The step taken at such an interface moves to the next interface and
\* changes nothing else: no probe, no read of the neighbor table, no name
\* resolution, the same list.
SkipHasNoEffect ==
    AtSkippedInterface =>
        /\ ifIdx' = ifIdx + 1
        /\ pc' = "iface"
        /\ UNCHANGED <<results, sweepVars, arpOut, arpCache, arpLog, enrichVars,
                       inflight, ouiDatabase, loadLog>>

\* No stage of scan() works on an interface to be skipped.
NoStageOnSkipped == pc \in IfacePcs => ~ToBeSkipped(ifIdx)

\* C23: an interface that does not match the configured filter, or that is
\* not IPv4, is skipped without any effect: no probe is issued for it, the
\* neighbor table is not read for it, no name resolution is performed for
\* it, and the result list is left unchanged by it.
C23_SkippedWithoutEffect == []NoStageOnSkipped /\ [][SkipHasNoEffect]_vars

\* An IPv4 interface that the filter does not name has just been skipped,
\* after an interface that gave devices.
C23_Witness ==
    /\ pc = "iface"
    /\ ifIdx = 3
    /\ Len(interfaces) = 2
    /\ interfaces[2].family = "IPv4"
    /\ ToBeSkipped(2)
    /\ results # <<>>
    /\ Len(arpLog) = 1

\* An interface entry that is not IPv4 has just been skipped, no filter
\* being configured.
C23_WitnessFamily ==
    /\ pc = "iface"
    /\ ifIdx = 3
    /\ Len(interfaces) = 2
    /\ ~options.interfaceFilter.defined
    /\ interfaces[2].family # "IPv4"
    /\ results # <<>>
    /\ Len(arpLog) = 1

==========================================================================
